---- MODULE Spec2Model ----
(***************************************************************************)
(* Descriptor canonicalization (into_wallet_descriptor), descriptor        *)
(* validation (check_wallet_descriptor) and key-origin matching            *)
(* (the derive_from_ methods of DescriptorMeta) of                         *)
(* wallet/src/descriptor/mod.rs.                                           *)
(*                                                                         *)
(* Every operation is a pure function of its inputs, so a behaviour is:    *)
(* Init draws one input, one action applies an operation to it and stores  *)
(* the outcome, follow-up actions apply the next operation to the outcome. *)
(***************************************************************************)
EXTENDS Integers, Sequences, FiniteSets, TLC

VARIABLES
    pc,            \* "start" | "canon" | "reparsed" | "checked" | "matched"
    source,        \* the value into_wallet_descriptor / check_wallet_descriptor is called on,
                   \* or the descriptor and evidence a derive_from_ method is called on
    network,       \* the target Network of the call
    result,        \* Result<(ExtendedDescriptor, KeyMap), DescriptorError> of the call,
                   \* or the Option<DerivedDescriptor> of a derive_from_ method
    pk_calls,      \* how many times the call's Translator::pk ran
    text2,         \* wallet_desc.to_string() of a canonical descriptor
    result2,       \* result of into_wallet_descriptor on text2
    check_result   \* Result<(), DescriptorError> of check_wallet_descriptor

vars == <<pc, source, network, result, pk_calls, text2, result2, check_result>>

(***************************************************************************)
(* Bounds                                                                  *)
(***************************************************************************)
\* keys in one descriptor
MaxKeys == 2
\* size of the space the checksum of an expression falls in
ChecksumSpace == 3
\* largest index a wildcard is replaced by in the evidence
MaxIndex == 1

(***************************************************************************)
(* Small helpers                                                           *)
(***************************************************************************)
Range(s) == {s[i] : i \in 1..Len(s)}

SeqsUpTo(S, n) == UNION {[1..m -> S] : m \in 1..n}

\* Option::None; Option<(Fingerprint, DerivationPath)>::Some is the pair <<fingerprint, path>>
None == <<>>

(***************************************************************************)
(* bitcoin::Network, NetworkKind and the valid-network sets of keys        *)
(***************************************************************************)
Networks == {"Bitcoin", "Testnet", "Regtest"}

\* impl From<Network> for NetworkKind
NetworkKind(n) == IF n = "Bitcoin" THEN "Main" ELSE "Test"

any_network == Networks

mainnet_network == {"Bitcoin"}

test_networks == Networks \ {"Bitcoin"}

(***************************************************************************)
(* bip32: child numbers, derivation paths, extended keys, fingerprints.    *)
(* Key material is symbolic: an extended key is the root it descends from  *)
(* and the chain of steps that led to it.                                  *)
(***************************************************************************)
Normal(i) == [hardened |-> FALSE, index |-> i]

Hardened(i) == [hardened |-> TRUE, index |-> i]

is_hardened(cn) == cn.hardened

XKey(id, net) == [id |-> id, chain |-> <<>>, network |-> net]

\* Xpub::fingerprint / InnerXKey::xkey_fingerprint: a function of the key material only
xkey_fingerprint(xkey) == <<xkey.id, xkey.chain>>

\* Xpriv::derive_priv followed by Xpub::from_priv
derive_priv(xkey, path) == [xkey EXCEPT !.chain = @ \o path]

(***************************************************************************)
(* miniscript::DescriptorPublicKey and DescriptorSecretKey                 *)
(***************************************************************************)
SinglePub(id, origin) == [kind |-> "Single", key |-> id, origin |-> origin]

XPub(xkey, origin, path, wildcard) ==
    [kind |-> "XPub", xkey |-> xkey, origin |-> origin,
     derivation_path |-> path, wildcard |-> wildcard]

MultiXPub(xkey, origin, paths, wildcard) ==
    [kind |-> "MultiXPub", xkey |-> xkey, origin |-> origin,
     derivation_paths |-> paths, wildcard |-> wildcard]

SinglePriv(id, net, origin) ==
    [kind |-> "Single", key |-> [id |-> id, network |-> net], origin |-> origin]

XPrv(xkey, origin, path, wildcard) ==
    [kind |-> "XPrv", xkey |-> xkey, origin |-> origin,
     derivation_path |-> path, wildcard |-> wildcard]

MultiXPrv(xkey, origin, paths, wildcard) ==
    [kind |-> "MultiXPrv", xkey |-> xkey, origin |-> origin,
     derivation_paths |-> paths, wildcard |-> wildcard]

\* the longest all-normal suffix of a path starts after position LastHardened(path)
LastHardened(path) ==
    IF \E i \in 1..Len(path) : is_hardened(path[i])
    THEN CHOOSE i \in 1..Len(path) :
            is_hardened(path[i]) /\ \A j \in (i+1)..Len(path) : ~is_hardened(path[j])
    ELSE 0

\* DescriptorXKey<Xpriv>::to_public: the hardened prefix of the path moves into the origin
xprv_to_public(xprv) ==
    LET h == LastHardened(xprv.derivation_path)
        hardened_path == SubSeq(xprv.derivation_path, 1, h)
        unhardened_path == SubSeq(xprv.derivation_path, h + 1, Len(xprv.derivation_path))
        origin == IF xprv.origin # None
                  THEN <<xprv.origin[1], xprv.origin[2] \o hardened_path>>
                  ELSE IF h = 0 THEN None
                  ELSE <<xkey_fingerprint(xprv.xkey), hardened_path>>
    IN XPub(derive_priv(xprv.xkey, hardened_path), origin, unhardened_path, xprv.wildcard)

(***************************************************************************)
(* miniscript::Descriptor<DescriptorPublicKey>: its structural type and    *)
(* its keys in the grammar's enumeration order                             *)
(***************************************************************************)
Descriptor(t, keys) == [desc_type |-> t, keys |-> keys]

SingleKeyTypes == {"Pkh", "Wpkh"}

MultiKeyTypes == {"Wsh", "Tr"}

DescriptorsOver(K) ==
    {Descriptor(t, <<k>>) : t \in SingleKeyTypes, k \in K}
    \cup {Descriptor(t, ks) : t \in MultiKeyTypes, ks \in SeqsUpTo(K, MaxKeys)}

\* DescriptorMeta::is_witness
is_witness(desc) == desc.desc_type \in {"Wpkh", "ShWpkh", "Wsh", "ShWsh", "ShWshSortedMulti", "WshSortedMulti"}

\* DescriptorMeta::is_taproot
is_taproot(desc) == desc.desc_type = "Tr"

\* Descriptor::is_multipath: some key holds several derivation paths
is_multipath(desc) == \E i \in 1..Len(desc.keys) : desc.keys[i].kind = "MultiXPub"

(***************************************************************************)
(* Errors and results                                                      *)
(***************************************************************************)
InvalidDescriptorChecksum == [variant |-> "InvalidDescriptorChecksum", inner |-> ""]

\* The error calc_checksum returns through the ? of the text handler when the
\* expression holds a character outside the checksum's input charset. The
\* expression handed to calc_checksum holds no #, so this error is never
\* InvalidDescriptorChecksum.
CalcChecksumError == [variant |-> "calc_checksum", inner |-> "invalid character"]

HardenedDerivationXpub == [variant |-> "HardenedDerivationXpub", inner |-> ""]

\* DescriptorError::Key(KeyError::InvalidNetwork)
KeyInvalidNetwork == [variant |-> "Key", inner |-> "InvalidNetwork"]

\* impl From<miniscript::Error> for DescriptorError: the error is wrapped as it is
MiniscriptError(e) == [variant |-> "Miniscript", inner |-> e]

Ok(desc, keymap) == [ok |-> TRUE, desc |-> desc, keymap |-> keymap]

Err(e) == [ok |-> FALSE, err |-> e]

OkUnit == [ok |-> TRUE]

NoResult == [ok |-> FALSE, err |-> [variant |-> "not called", inner |-> ""]]

(***************************************************************************)
(* Descriptor text.  An expression is a wrapper around keys; a key is a    *)
(* prefix (xpub, tpub, xprv, tprv, or hex for a plain public key), the     *)
(* encoded key material, an optional [fingerprint/path] origin, path steps *)
(* (a step with several alternatives is a multipath step <a;b>) and a      *)
(* wildcard suffix.  A text is an expression and what follows the first #. *)
(***************************************************************************)
TextAlt(i, m) == [index |-> i, mark |-> m]

TextKey(prefix, body, origin, steps, wildcard) ==
    [prefix |-> prefix, body |-> body, origin |-> origin, steps |-> steps, wildcard |-> wildcard]

TextExpr(wrapper, keys) == [form |-> "desc", wrapper |-> wrapper, keys |-> keys]

\* characters of the checksum's input charset that do not parse as a descriptor
GarbageExpr == [form |-> "garbage", wrapper |-> "", keys |-> <<>>]

\* an expression holding a character outside the checksum's input charset
BadCharExpr == [form |-> "badchar", wrapper |-> "", keys |-> <<>>]

WrapperOf(t) ==
    CASE t = "Pkh" -> "pkh(" [] t = "Wpkh" -> "wpkh(" [] t = "Wsh" -> "wsh(" [] t = "Tr" -> "tr("

TypeOfWrapper(w) ==
    CASE w = "pkh(" -> "Pkh" [] w = "wpkh(" -> "Wpkh" [] w = "wsh(" -> "Wsh" [] w = "tr(" -> "Tr"

\* ChildNumber's Display writes a hardened step with an apostrophe
PrintStep(cn) == TextAlt(cn.index, IF cn.hardened THEN "'" ELSE "")

\* ChildNumber::from_str reads an apostrophe or an h as the hardened mark
ParseStep(alt) == [hardened |-> alt.mark \in {"'", "h"}, index |-> alt.index]

PrintWildcard(w) ==
    CASE w = "None" -> "" [] w = "Unhardened" -> "/*" [] w = "Hardened" -> "/*'"

ParseWildcard(t) ==
    CASE t = "" -> "None" [] t = "/*" -> "Unhardened" [] t \in {"/*'", "/*h"} -> "Hardened"

PrintOrigin(origin) ==
    IF origin = None THEN None
    ELSE <<origin[1], [i \in 1..Len(origin[2]) |-> PrintStep(origin[2][i])]>>

ParseOrigin(t) ==
    IF t = None THEN None
    ELSE <<t[1], [i \in 1..Len(t[2]) |-> ParseStep(t[2][i])]>>

\* Display of DescriptorPublicKey
PrintKey(k) ==
    CASE k.kind = "Single" ->
            TextKey("hex", <<k.key, <<>>>>, PrintOrigin(k.origin), <<>>, "")
      [] k.kind = "XPub" ->
            TextKey(IF k.xkey.network = "Main" THEN "xpub" ELSE "tpub",
                    <<k.xkey.id, k.xkey.chain>>, PrintOrigin(k.origin),
                    [i \in 1..Len(k.derivation_path) |-> <<PrintStep(k.derivation_path[i])>>],
                    PrintWildcard(k.wildcard))
      [] k.kind = "MultiXPub" ->
            LET paths == k.derivation_paths
                same(i) == \A a \in 1..Len(paths) : paths[a][i] = paths[1][i]
            IN TextKey(IF k.xkey.network = "Main" THEN "xpub" ELSE "tpub",
                       <<k.xkey.id, k.xkey.chain>>, PrintOrigin(k.origin),
                       [i \in 1..Len(paths[1]) |->
                            IF same(i) THEN <<PrintStep(paths[1][i])>>
                            ELSE [a \in 1..Len(paths) |-> PrintStep(paths[a][i])]],
                       PrintWildcard(k.wildcard))

\* Display of Descriptor, without the checksum
PrintExpr(desc) ==
    TextExpr(WrapperOf(desc.desc_type), [i \in 1..Len(desc.keys) |-> PrintKey(desc.keys[i])])

KeyOk(pub, sec) == [ok |-> TRUE, pub |-> pub, sec |-> sec]

\* parsing of one key expression: DescriptorPublicKey::from_str, or
\* DescriptorSecretKey::from_str followed by to_public
ParseKey(tk) ==
    LET multis == {i \in 1..Len(tk.steps) : Len(tk.steps[i]) > 1}
        secret == tk.prefix \in {"xprv", "tprv"}
        xkey == [id |-> tk.body[1], chain |-> tk.body[2],
                 network |-> IF tk.prefix \in {"xpub", "xprv"} THEN "Main" ELSE "Test"]
        origin == ParseOrigin(tk.origin)
        wildcard == ParseWildcard(tk.wildcard)
        path == [i \in 1..Len(tk.steps) |-> ParseStep(tk.steps[i][1])]
        nalts == IF multis = {} THEN 1 ELSE Len(tk.steps[CHOOSE i \in multis : TRUE])
        paths == [a \in 1..nalts |->
                    [i \in 1..Len(tk.steps) |->
                        ParseStep(IF i \in multis THEN tk.steps[i][a] ELSE tk.steps[i][1])]]
    IN CASE tk.prefix = "hex" ->
                IF tk.steps # <<>> \/ tk.wildcard # ""
                THEN Err("Unexpected")
                ELSE KeyOk(SinglePub(tk.body[1], origin), None)
         [] Cardinality(multis) > 1 -> Err("MultipleMultipathSteps")
         [] secret /\ multis # {} -> Err("Unexpected")
         [] secret ->
                KeyOk(xprv_to_public(XPrv(xkey, origin, path, wildcard)),
                      <<XPrv(xkey, origin, path, wildcard)>>)
         [] multis # {} -> KeyOk(MultiXPub(xkey, origin, paths, wildcard), None)
         [] OTHER -> KeyOk(XPub(xkey, origin, path, wildcard), None)

\* Descriptor::parse_descriptor: the public descriptor and the map of the secret keys met
parse_descriptor(expr) ==
    IF expr.form # "desc" THEN Err("Unexpected")
    ELSE LET keys == [i \in 1..Len(expr.keys) |-> ParseKey(expr.keys[i])]
             bad == {i \in 1..Len(keys) : ~keys[i].ok}
             t == TypeOfWrapper(expr.wrapper)
         IN IF t \in SingleKeyTypes /\ Len(keys) # 1 THEN Err("Unexpected")
            ELSE IF bad # {} THEN Err(keys[CHOOSE i \in bad : \A j \in bad : i <= j].err)
            ELSE Ok(Descriptor(t, [i \in 1..Len(keys) |-> keys[i].pub]),
                    {<<keys[i].pub, keys[i].sec[1]>> : i \in {j \in 1..Len(keys) : keys[j].sec # None}})

(***************************************************************************)
(* checksum::calc_checksum: a deterministic function of the expression     *)
(* text, which fails on a character outside its input charset              *)
(***************************************************************************)
AltWeight(alt) == 1 + alt.index + (CASE alt.mark = "" -> 0 [] alt.mark = "'" -> 2 [] alt.mark = "h" -> 3)

RECURSIVE SumSeq(_)
SumSeq(s) == IF s = <<>> THEN 0 ELSE s[1] + SumSeq(Tail(s))

StepWeight(step) == SumSeq([a \in 1..Len(step) |-> a * AltWeight(step[a])])

KeyWeight(tk) ==
    (CASE tk.prefix = "hex" -> 1 [] tk.prefix = "xpub" -> 2 [] tk.prefix = "tpub" -> 3
       [] tk.prefix = "xprv" -> 4 [] tk.prefix = "tprv" -> 5)
    + (CASE tk.wildcard = "" -> 0 [] tk.wildcard = "/*" -> 1 [] tk.wildcard = "/*'" -> 2
         [] tk.wildcard = "/*h" -> 3)
    + (IF tk.origin = None THEN 0 ELSE 1 + Len(tk.origin[2]))
    + Len(tk.body[2])
    + SumSeq([i \in 1..Len(tk.steps) |-> i * StepWeight(tk.steps[i])])

ExprWeight(expr) ==
    (CASE expr.wrapper = "" -> 0 [] expr.wrapper = "pkh(" -> 1 [] expr.wrapper = "wpkh(" -> 2
       [] expr.wrapper = "wsh(" -> 3 [] expr.wrapper = "tr(" -> 4)
    + SumSeq([i \in 1..Len(expr.keys) |-> i * KeyWeight(expr.keys[i])])

calc_checksum(expr) ==
    IF expr.form = "badchar" THEN Err(CalcChecksumError)
    ELSE [ok |-> TRUE, checksum |-> ExprWeight(expr) % ChecksumSpace]

\* Display of Descriptor: the expression, a # and the expression's checksum
to_string(desc) ==
    [expr |-> PrintExpr(desc), suffix |-> <<calc_checksum(PrintExpr(desc)).checksum>>]

(***************************************************************************)
(* into_wallet_descriptor                                                  *)
(***************************************************************************)
\* pk.into_descriptor_key()?.extract(secp)?: the networks a public key is valid for
valid_networks(pk) ==
    CASE pk.kind = "Single" -> any_network
      [] pk.kind \in {"XPub", "MultiXPub"} /\ pk.xkey.network = "Main" -> mainnet_network
      [] OTHER -> test_networks

\* Translator::pk of the pair's translation: the key is taken in the script context of
\* the descriptor and is accepted when its networks hold the target network
network_check_pk(desc, pk, net) ==
    LET networks == IF is_taproot(desc) THEN valid_networks(pk)
                    ELSE IF is_witness(desc) THEN valid_networks(pk)
                    ELSE valid_networks(pk)
    IN net \in networks

\* the result of a call and the number of Translator::pk calls it made
Outcome(res, calls) == [res |-> res, pk_calls |-> calls]

\* the pair conversion looking at the network of the first key only
pair_checking_first_key_only(desc, keymap, net) ==
    IF ~network_check_pk(desc, desc.keys[1], net)
    THEN Outcome(Err(KeyInvalidNetwork), 1)
    ELSE Outcome(Ok(desc, keymap), Len(desc.keys))

\* the pair conversion handing back the descriptor without its key map
pair_returning_descriptor_only(desc, keymap, net) ==
    LET bad == {i \in 1..Len(desc.keys) : ~network_check_pk(desc, desc.keys[i], net)}
        first == CHOOSE i \in bad : \A j \in bad : i <= j
    IN IF bad # {}
       THEN Outcome(Err(KeyInvalidNetwork), first)
       ELSE Outcome(Ok(desc, {}), Len(desc.keys))

\* impl IntoWalletDescriptor for (ExtendedDescriptor, KeyMap): translate_pk runs the
\* translator's pk on the keys in order and stops at the first error
pair_into_wallet_descriptor(desc, keymap, net) ==
    LET bad == {i \in 1..Len(desc.keys) : ~network_check_pk(desc, desc.keys[i], net)}
        first == CHOOSE i \in bad : \A j \in bad : i <= j
    IN IF bad # {}
       THEN Outcome(Err(KeyInvalidNetwork), first)
       ELSE Outcome(Ok(desc, keymap), Len(desc.keys))

\* impl IntoWalletDescriptor for ExtendedDescriptor
descriptor_into_wallet_descriptor(desc, net) == pair_into_wallet_descriptor(desc, {}, net)

\* the text conversion with the comparison of the two checksums left out
str_without_checksum_comparison(text, net) ==
    LET checksum == calc_checksum(text.expr)
        parsed == parse_descriptor(text.expr)
    IN IF text.suffix # None /\ ~checksum.ok
       THEN Outcome(Err(checksum.err), 0)
       ELSE IF ~parsed.ok
       THEN Outcome(Err(MiniscriptError(parsed.err)), 0)
       ELSE pair_into_wallet_descriptor(parsed.desc, parsed.keymap, net)

\* the text conversion with the checksums compared after parsing and network check
str_comparing_checksum_last(text, net) ==
    LET checksum == calc_checksum(text.expr)
        parsed == parse_descriptor(text.expr)
        converted == pair_into_wallet_descriptor(parsed.desc, parsed.keymap, net)
    IN IF text.suffix # None /\ ~checksum.ok
       THEN Outcome(Err(checksum.err), 0)
       ELSE IF ~parsed.ok
       THEN Outcome(Err(MiniscriptError(parsed.err)), 0)
       ELSE IF ~converted.res.ok
       THEN converted
       ELSE IF text.suffix # None /\ text.suffix[1] # checksum.checksum
       THEN Outcome(Err(InvalidDescriptorChecksum), converted.pk_calls)
       ELSE converted

\* impl IntoWalletDescriptor for &str
str_into_wallet_descriptor(text, net) ==
    LET checksum == calc_checksum(text.expr)
        parsed == parse_descriptor(text.expr)
    IN IF text.suffix # None /\ ~checksum.ok
       THEN Outcome(Err(checksum.err), 0)
       ELSE IF text.suffix # None /\ text.suffix[1] # checksum.checksum
       THEN Outcome(Err(InvalidDescriptorChecksum), 0)
       ELSE IF ~parsed.ok
       THEN Outcome(Err(MiniscriptError(parsed.err)), 0)
       ELSE pair_into_wallet_descriptor(parsed.desc, parsed.keymap, net)

\* a translator that hands every key back as it came
fixup_pk_keeping_network(pk, net) == pk

\* Translator::pk of the template output's translation
fixup_pk(pk, net) ==
    IF pk.kind = "XPub"
    THEN [pk EXCEPT !.xkey.network = NetworkKind(net)]
    ELSE pk

\* the closure mapped over the key map's entries
fixup_entry(e, net) ==
    LET k == e[1]
        v == e[2]
    IN CASE k.kind = "XPub" /\ v.kind = "XPrv" ->
                <<[k EXCEPT !.xkey.network = NetworkKind(net)],
                  [v EXCEPT !.xkey.network = NetworkKind(net)]>>
         [] v.kind = "Single" -> <<k, [v EXCEPT !.key.network = NetworkKind(net)]>>
         [] OTHER -> e

\* BTreeMap iteration order of two keys that differ in the network of their xkey only
\* (NetworkKind::Main sorts before NetworkKind::Test)
LaterEntry(e, f) == IF e[1].kind = "XPub" /\ e[1].xkey.network = "Test" THEN e ELSE f

\* .into_iter().map(..).collect(): of the entries that end under one key the last stays
fixup_keymap(keymap, net) ==
    {fixup_entry(e, net) : e \in
        {e \in keymap : \A f \in keymap :
            fixup_entry(f, net)[1] = fixup_entry(e, net)[1] => LaterEntry(e, f) = e}}

\* the template conversion translating the keys before it looks at the network set
template_translating_before_network_check(desc, keymap, networks, net) ==
    IF net \notin networks
    THEN Outcome(Err(KeyInvalidNetwork), Len(desc.keys))
    ELSE Outcome(Ok(Descriptor(desc.desc_type,
                               [i \in 1..Len(desc.keys) |-> fixup_pk(desc.keys[i], net)]),
                    fixup_keymap(keymap, net)),
                 Len(desc.keys))

\* impl IntoWalletDescriptor for DescriptorTemplateOut
template_into_wallet_descriptor(desc, keymap, networks, net) ==
    IF net \notin networks
    THEN Outcome(Err(KeyInvalidNetwork), 0)
    ELSE Outcome(Ok(Descriptor(desc.desc_type,
                               [i \in 1..Len(desc.keys) |-> fixup_pk(desc.keys[i], net)]),
                    fixup_keymap(keymap, net)),
                 Len(desc.keys))

(***************************************************************************)
(* check_wallet_descriptor                                                 *)
(***************************************************************************)
\* a closure that looks at the wildcard and not at the derivation path
key_with_hardened_wildcard_only(k) ==
    IF k.kind = "XPub" THEN k.wildcard = "Hardened" ELSE FALSE

\* a closure that looks at the origin path as well
key_or_origin_contains_hardened_steps(k) ==
    IF k.kind = "XPub"
    THEN k.wildcard = "Hardened"
         \/ (\E i \in 1..Len(k.derivation_path) : is_hardened(k.derivation_path[i]))
         \/ (k.origin # None /\ \E i \in 1..Len(k.origin[2]) : is_hardened(k.origin[2][i]))
    ELSE FALSE

\* the closure given to for_any_key
key_contains_hardened_steps(k) ==
    IF k.kind = "XPub"
    THEN k.wildcard = "Hardened"
         \/ \E i \in 1..Len(k.derivation_path) : is_hardened(k.derivation_path[i])
    ELSE FALSE

descriptor_contains_hardened_steps(desc) ==
    \E i \in 1..Len(desc.keys) : key_contains_hardened_steps(desc.keys[i])

\* Descriptor::sanity_check: looks for duplicated keys
sanity_check(desc) ==
    IF \E i, j \in 1..Len(desc.keys) : i < j /\ desc.keys[i] = desc.keys[j]
    THEN Err("RepeatedPubkeys")
    ELSE OkUnit

\* the validator with the multipath check left out
check_without_multipath_check(desc) ==
    IF descriptor_contains_hardened_steps(desc)
    THEN Err(HardenedDerivationXpub)
    ELSE IF ~sanity_check(desc).ok
    THEN Err(MiniscriptError(sanity_check(desc).err))
    ELSE OkUnit

\* the validator with the sanity check left out
check_without_sanity_check(desc) ==
    IF descriptor_contains_hardened_steps(desc)
    THEN Err(HardenedDerivationXpub)
    ELSE IF is_multipath(desc)
    THEN Err(MiniscriptError("BadDescriptor"))
    ELSE OkUnit

check_wallet_descriptor(desc) ==
    IF descriptor_contains_hardened_steps(desc)
    THEN Err(HardenedDerivationXpub)
    ELSE IF is_multipath(desc)
    THEN Err(MiniscriptError("BadDescriptor"))
    ELSE IF ~sanity_check(desc).ok
    THEN Err(MiniscriptError(sanity_check(desc).err))
    ELSE OkUnit

(***************************************************************************)
(* The key-origin matcher: DescriptorMeta of ExtendedDescriptor            *)
(***************************************************************************)
\* Option<DerivedDescriptor> of a matcher call, or the abort of a failed expect/unwrap
Derived(desc) == [outcome |-> "Some", desc |-> desc]

NotDerived == [outcome |-> "None"]

Aborted == [outcome |-> "panic"]

\* Xpub::derive_pub: public derivation fails on a hardened step
derive_pub(xkey, path) ==
    IF \E i \in 1..Len(path) : is_hardened(path[i])
    THEN [ok |-> FALSE]
    ELSE [ok |-> TRUE, xkey |-> [xkey EXCEPT !.chain = @ \o path]]

\* the public key of an extended key: a function of the key material only
public_key(xkey) == <<xkey.id, xkey.chain>>

\* SinglePubKey::FullKey(PublicKey::new(pk))
FullKey(pk) == [form |-> "FullKey", key |-> pk]

\* SinglePubKey::XOnly(XOnlyPublicKey::from(pk))
XOnly(pk) == [form |-> "XOnly", key |-> pk]

\* XKeyUtils::root_fingerprint of DescriptorXKey
root_fingerprint(xpub) ==
    IF xpub.origin # None THEN xpub.origin[1] ELSE xkey_fingerprint(xpub.xkey)

\* the path from the root fingerprint to the keys an extended key stands for,
\* without the wildcard step
compare_path(xpub) ==
    IF xpub.origin # None THEN xpub.origin[2] \o xpub.derivation_path
    ELSE xpub.derivation_path

\* DescriptorXKey::matches: the prefix of the key source's path that matched
matches(xpub, fingerprint, path) ==
    LET path_excluding_wildcard ==
            IF xpub.wildcard # "None" /\ Len(path) > 0
            THEN SubSeq(path, 1, Len(path) - 1)
            ELSE path
    IN  IF root_fingerprint(xpub) = fingerprint /\ compare_path(xpub) = path_excluding_wildcard
        THEN [some |-> TRUE, prefix |-> path_excluding_wildcard]
        ELSE [some |-> FALSE]

\* DescriptorPublicKey::at_derivation_index: the wildcard replaced by a step
key_at_derivation_index(k, index) ==
    IF k.kind # "XPub" THEN k
    ELSE XPub(k.xkey, k.origin,
              CASE k.wildcard = "None" -> k.derivation_path
                [] k.wildcard = "Unhardened" -> k.derivation_path \o <<Normal(index)>>
                [] k.wildcard = "Hardened" -> k.derivation_path \o <<Hardened(index)>>,
              "None")

\* Descriptor::at_derivation_index: fails on a multipath key
at_derivation_index(desc, index) ==
    IF is_multipath(desc) THEN [ok |-> FALSE]
    ELSE [ok |-> TRUE,
          desc |-> Descriptor(desc.desc_type,
                              [i \in 1..Len(desc.keys) |->
                                  key_at_derivation_index(desc.keys[i], index)])]

\* Descriptor::has_wildcard
has_wildcard(desc) ==
    \E i \in 1..Len(desc.keys) :
        desc.keys[i].kind \in {"XPub", "MultiXPub"} /\ desc.keys[i].wildcard # "None"

\* the public key a key of a derived descriptor stands for
definite_public_key(k) ==
    IF k.kind = "Single" THEN <<k.key, <<>>>>
    ELSE <<k.xkey.id, k.xkey.chain \o k.derivation_path>>

\* Descriptor::script_pubkey of a derived descriptor: the script that commits
\* to the descriptor's structure and public keys
script_pubkey(derived) ==
    [script |-> "script_pubkey", desc_type |-> derived.desc_type,
     keys |-> [i \in 1..Len(derived.keys) |-> definite_public_key(derived.keys[i])]]

\* Descriptor::explicit_script of a derived descriptor: the script that is
\* hashed into the script_pubkey
explicit_script(derived) ==
    [script |-> "explicit_script", desc_type |-> derived.desc_type,
     keys |-> [i \in 1..Len(derived.keys) |-> definite_public_key(derived.keys[i])]]

\* collect() into BTreeMap<Fingerprint, _>: of the entries that share a
\* fingerprint the last one in iteration order stays
collect_key_origins(entries) ==
    [fp \in {entries[i].fingerprint : i \in 1..Len(entries)} |->
        LET last == CHOOSE i \in 1..Len(entries) :
                        /\ entries[i].fingerprint = fp
                        /\ \A j \in (i + 1)..Len(entries) : entries[j].fingerprint # fp
        IN  [path |-> entries[last].path, expected |-> entries[last].expected]]

\* a verify_key that accepts whatever key is expected
verify_key_accepting_any_key(xpub, path, expected) ==
    IF ~derive_pub(xpub.xkey, path).ok THEN "panic" ELSE "true"

\* the closure verify_key: "panic" when derive_pub fails under expect
verify_key(xpub, path, expected) ==
    IF ~derive_pub(xpub.xkey, path).ok THEN "panic"
    ELSE
        LET derived == public_key(derive_pub(xpub.xkey, path).xkey) IN
        IF expected.form = "FullKey" /\ FullKey(derived) = expected THEN "true"
        ELSE IF expected.form = "XOnly" /\ XOnly(derived) = expected THEN "true"
        ELSE "false"

\* the and_then chain on the looked-up entry: Option<DerivationPath>, or "panic"
derive_path_of(xpub, key_origins) ==
    LET fp == root_fingerprint(xpub) IN
    IF fp \notin DOMAIN key_origins THEN [some |-> FALSE, panic |-> FALSE]
    ELSE
        LET full_path == key_origins[fp].path
            expected == key_origins[fp].expected
            m == matches(xpub, fp, full_path)
        IN  IF ~m.some THEN [some |-> FALSE, panic |-> FALSE]
            ELSE
                LET derive_path == SubSeq(full_path, Len(m.prefix) + 1, Len(full_path))
                    v == verify_key(xpub, xpub.derivation_path \o derive_path, expected)
                IN  IF v = "panic" THEN [some |-> FALSE, panic |-> TRUE]
                    ELSE IF v = "true"
                    THEN [some |-> TRUE, panic |-> FALSE, path |-> derive_path]
                    ELSE [some |-> FALSE, panic |-> FALSE]

\* a closure that resolves every wildcard to index 0
key_path_found_at_index_zero(key, key_origins) ==
    IF key.kind # "XPub" THEN [step |-> "continue"]
    ELSE IF derive_path_of(key, key_origins).panic THEN [step |-> "panic"]
    ELSE IF derive_path_of(key, key_origins).some THEN [step |-> "found", index |-> 0]
    ELSE [step |-> "continue"]

\* the closure given to for_any_key: what examining one key does to path_found
\* ("continue" is the closure returning false)
key_path_found(key, key_origins) ==
    IF key.kind # "XPub" THEN [step |-> "continue"]
    ELSE
        LET derive_path == derive_path_of(key, key_origins) IN
        IF derive_path.panic THEN [step |-> "panic"]
        ELSE IF ~derive_path.some THEN [step |-> "continue"]
        ELSE IF key.wildcard # "None" /\ Len(derive_path.path) = 1
        THEN IF ~is_hardened(derive_path.path[1])
             THEN [step |-> "found", index |-> derive_path.path[1].index]
             ELSE [step |-> "continue"]
        ELSE IF key.wildcard = "None" /\ Len(derive_path.path) = 0
        THEN [step |-> "found", index |-> 0]
        ELSE [step |-> "continue"]

\* an enumeration that keeps going and lets the last matching key decide
path_found_of_last_key(desc, key_origins) ==
    LET stops == {i \in 1..Len(desc.keys) :
                    key_path_found(desc.keys[i], key_origins).step # "continue"}
    IN  IF stops = {} THEN [step |-> "continue"]
        ELSE key_path_found(desc.keys[CHOOSE i \in stops : \A j \in stops : i >= j],
                            key_origins)

\* for_any_key: the keys are examined in order up to the first the closure
\* returns true for
path_found(desc, key_origins) ==
    LET stops == {i \in 1..Len(desc.keys) :
                    key_path_found(desc.keys[i], key_origins).step # "continue"}
    IN  IF stops = {} THEN [step |-> "continue"]
        ELSE key_path_found(desc.keys[CHOOSE i \in stops : \A j \in stops : i <= j],
                            key_origins)

derive_from_psbt_key_origins(desc, key_origins) ==
    LET found == path_found(desc, key_origins) IN
    CASE found.step = "panic" -> Aborted
      [] found.step = "continue" -> NotDerived
      [] found.step = "found" ->
            IF at_derivation_index(desc, found.index).ok
            THEN Derived(at_derivation_index(desc, found.index).desc)
            ELSE Aborted

derive_from_hd_keypaths(desc, hd_keypaths) ==
    derive_from_psbt_key_origins(desc,
        collect_key_origins([i \in 1..Len(hd_keypaths) |->
            [fingerprint |-> hd_keypaths[i].fingerprint,
             path |-> hd_keypaths[i].path,
             expected |-> FullKey(hd_keypaths[i].pk)]]))

\* a taproot stage that only looks at the entries of keys that occur in a leaf
derive_from_tap_key_origins_of_leaf_keys(desc, tap_key_origins) ==
    LET in_leaf == SelectSeq(tap_key_origins, LAMBDA e : e.leaf_hashes # {}) IN
    derive_from_psbt_key_origins(desc,
        collect_key_origins([i \in 1..Len(in_leaf) |->
            [fingerprint |-> in_leaf[i].fingerprint,
             path |-> in_leaf[i].path,
             expected |-> XOnly(in_leaf[i].pk)]]))

derive_from_tap_key_origins(desc, tap_key_origins) ==
    derive_from_psbt_key_origins(desc,
        collect_key_origins([i \in 1..Len(tap_key_origins) |->
            [fingerprint |-> tap_key_origins[i].fingerprint,
             path |-> tap_key_origins[i].path,
             expected |-> XOnly(tap_key_origins[i].pk)]]))

\* a fallback that accepts a redeem or witness script without comparing it
fixed_index_fallback_on_script_presence(descriptor, psbt_input, utxo) ==
    IF /\ descriptor.desc_type \in {"Pkh", "Wpkh", "ShWpkh", "Tr"}
       /\ utxo # None
       /\ script_pubkey(descriptor) = utxo[1]
    THEN Derived(descriptor)
    ELSE IF /\ descriptor.desc_type \in {"Bare", "Sh", "ShSortedMulti"}
            /\ psbt_input.redeem_script # None
    THEN Derived(descriptor)
    ELSE IF /\ descriptor.desc_type \in {"Wsh", "ShWsh", "ShWshSortedMulti", "WshSortedMulti"}
            /\ psbt_input.witness_script # None
    THEN Derived(descriptor)
    ELSE NotDerived

\* the match on the type of the descriptor derived at index 0
fixed_index_fallback(descriptor, psbt_input, utxo) ==
    IF /\ descriptor.desc_type \in {"Pkh", "Wpkh", "ShWpkh", "Tr"}
       /\ utxo # None
       /\ script_pubkey(descriptor) = utxo[1]
    THEN Derived(descriptor)
    ELSE IF /\ descriptor.desc_type \in {"Bare", "Sh", "ShSortedMulti"}
            /\ psbt_input.redeem_script # None
            /\ explicit_script(descriptor) = psbt_input.redeem_script[1]
    THEN Derived(descriptor)
    ELSE IF /\ descriptor.desc_type \in {"Wsh", "ShWsh", "ShWshSortedMulti", "WshSortedMulti"}
            /\ psbt_input.witness_script # None
            /\ explicit_script(descriptor) = psbt_input.witness_script[1]
    THEN Derived(descriptor)
    ELSE NotDerived

\* derive_from_psbt_input with the taproot stage consulted before the HD stage
derive_from_psbt_input_taproot_first(desc, psbt_input, utxo) ==
    LET hd == derive_from_hd_keypaths(desc, psbt_input.bip32_derivation)
        tap == derive_from_tap_key_origins(desc, psbt_input.tap_key_origins)
    IN  IF tap # NotDerived THEN tap
        ELSE IF hd # NotDerived THEN hd
        ELSE IF has_wildcard(desc) THEN NotDerived
        ELSE IF ~at_derivation_index(desc, 0).ok THEN Aborted
        ELSE fixed_index_fallback(at_derivation_index(desc, 0).desc, psbt_input, utxo)

\* derive_from_psbt_input without the has_wildcard exit before the fallback
derive_from_psbt_input_guessing_index_zero(desc, psbt_input, utxo) ==
    LET hd == derive_from_hd_keypaths(desc, psbt_input.bip32_derivation)
        tap == derive_from_tap_key_origins(desc, psbt_input.tap_key_origins)
    IN  IF hd # NotDerived THEN hd
        ELSE IF tap # NotDerived THEN tap
        ELSE IF ~at_derivation_index(desc, 0).ok THEN Aborted
        ELSE fixed_index_fallback(at_derivation_index(desc, 0).desc, psbt_input, utxo)

derive_from_psbt_input(desc, psbt_input, utxo) ==
    LET hd == derive_from_hd_keypaths(desc, psbt_input.bip32_derivation)
        tap == derive_from_tap_key_origins(desc, psbt_input.tap_key_origins)
    IN  IF hd # NotDerived THEN hd
        ELSE IF tap # NotDerived THEN tap
        ELSE IF has_wildcard(desc) THEN NotDerived
        ELSE IF ~at_derivation_index(desc, 0).ok THEN Aborted
        ELSE fixed_index_fallback(at_derivation_index(desc, 0).desc, psbt_input, utxo)

(***************************************************************************)
(* The inputs the operations are applied to                                *)
(***************************************************************************)
NetworkKinds == {"Main", "Test"}

\* an origin whose path from the root is hardened, as in [0f056943/44h]
HardenedOrigin == <<<<"root", <<>>>>, <<Hardened(0)>>>>

\* keys that differ in kind and network
CanonKeys ==
    {SinglePub("kA", None)}
    \cup {XPub(XKey("kA", n), None, <<Normal(0)>>, "Unhardened") : n \in NetworkKinds}
    \cup {XPub(XKey("kB", "Test"), HardenedOrigin, <<>>, "None")}
    \cup {MultiXPub(XKey("kA", n), None, <<<<Normal(0)>>, <<Normal(1)>>>>, "Unhardened") :
            n \in NetworkKinds}

\* keys that differ in kind, wildcard, derivation path and origin
CheckKeys ==
    {SinglePub("kA", None)}
    \cup {XPub(XKey("kA", "Test"), None, p, w) :
            p \in {<<>>, <<Normal(0)>>, <<Hardened(0)>>, <<Normal(0), Hardened(1)>>},
            w \in {"None", "Unhardened", "Hardened"}}
    \cup {XPub(XKey("kA", "Test"), HardenedOrigin, <<Normal(0)>>, w) :
            w \in {"None", "Unhardened"}}
    \cup {MultiXPub(XKey("kA", "Test"), None, ps, w) :
            ps \in {<<<<Normal(0)>>, <<Normal(1)>>>>, <<<<Hardened(0)>>, <<Hardened(1)>>>>},
            w \in {"None", "Unhardened", "Hardened"}}

\* the secret key a public key of a key map stands for
secret_of(k) ==
    CASE k.kind = "Single" -> SinglePriv(k.key, "Main", k.origin)
      [] k.kind = "XPub" -> XPrv(k.xkey, k.origin, k.derivation_path, k.wildcard)
      [] k.kind = "MultiXPub" -> MultiXPrv(k.xkey, k.origin, k.derivation_paths, k.wildcard)

\* the key maps a descriptor travels with: none of its secrets, or all of them
KeyMapsOf(desc) == {{}, {<<k, secret_of(k)>> : k \in Range(desc.keys)}}

\* the network sets a template builder hands out with a descriptor: the networks
\* every key is valid for, where the set of a key is the one its encoding gives or
\* was overridden to any network (key.override_valid_networks(any_network()))
TemplateNetworkSets(desc) ==
    {{n \in Networks : \A i \in 1..Len(desc.keys) :
            overridden[i] \/ n \in valid_networks(desc.keys[i])} :
        overridden \in [1..Len(desc.keys) -> BOOLEAN]}

TextKeys ==
    {TextKey("hex", <<"kA", <<>>>>, None, <<>>, "")}
    \cup {TextKey(p, <<"kA", <<>>>>, None, <<<<TextAlt(0, "")>>>>, "/*") :
            p \in {"xpub", "tpub", "xprv", "tprv"}}
    \cup {TextKey(p, <<"kA", <<>>>>, None, <<<<TextAlt(0, ""), TextAlt(1, "")>>>>, "/*") :
            p \in {"xpub", "tpub", "tprv"}}
    \cup {TextKey("tpub", <<"kB", <<>>>>, <<<<"root", <<>>>>, <<TextAlt(0, "h")>>>>, <<>>, ""),
          TextKey("tprv", <<"kA", <<>>>>, None, <<<<TextAlt(0, "'")>>, <<TextAlt(0, "")>>>>, "/*"),
          TextKey("tpub", <<"kA", <<>>>>, None, <<<<TextAlt(0, "")>>>>, "/*h")}

TextExprs ==
    {TextExpr(WrapperOf(t), <<k>>) : t \in SingleKeyTypes, k \in TextKeys}
    \cup {TextExpr(WrapperOf(t), ks) : t \in MultiKeyTypes, ks \in SeqsUpTo(TextKeys, MaxKeys)}
    \cup {GarbageExpr, BadCharExpr}

\* what follows the first #, as the class of expressions it is the checksum of
Suffixes == {None} \cup {<<c>> : c \in 0..(ChecksumSpace - 1)}

Sources ==
    {[shape |-> "str", text |-> [expr |-> e, suffix |-> x]] : e \in TextExprs, x \in Suffixes}
    \cup {[shape |-> "descriptor", desc |-> d] : d \in DescriptorsOver(CanonKeys)}
    \cup UNION {{[shape |-> "pair", desc |-> d, keymap |-> m] : m \in KeyMapsOf(d)} :
                    d \in DescriptorsOver(CanonKeys)}
    \cup UNION {{[shape |-> "template", desc |-> d, keymap |-> m, networks |-> ns] :
                    m \in KeyMapsOf(d), ns \in TemplateNetworkSets(d)} : d \in DescriptorsOver(CanonKeys)}

NoText == [expr |-> GarbageExpr, suffix |-> None]

(***************************************************************************)
(* The inputs of the key-origin matcher                                    *)
(***************************************************************************)
\* an origin with the root fingerprint of HardenedOrigin and another path
SiblingOrigin == <<HardenedOrigin[1], <<Hardened(1)>>>>

\* keys that differ in kind, wildcard, origin and derivation path; one has
\* the wildcard right after the extended key, and the last one holds a
\* hardened step after the extended key
MatchKeys ==
    {SinglePub("kA", None)}
    \cup {XPub(XKey("kA", "Test"), None, <<Normal(0)>>, w) :
            w \in {"None", "Unhardened", "Hardened"}}
    \cup {XPub(XKey("kB", "Test"), HardenedOrigin, <<>>, w) : w \in {"None", "Unhardened"}}
    \cup {XPub(XKey("kC", "Test"), SiblingOrigin, <<>>, "Unhardened"),
          XPub(XKey("kD", "Test"), None, <<>>, "Unhardened"),
          XPub(XKey("kA", "Test"), None, <<Hardened(0)>>, "Unhardened")}

\* keys without a wildcard
FixedMatchKeys == {k \in MatchKeys : k.kind = "Single" \/ k.wildcard = "None"}

\* keys of descriptors of more than one key: a wildcard key, a fixed key and a
\* wildcard key that shares the fixed key's root fingerprint
MultiMatchKeys ==
    {XPub(XKey("kA", "Test"), None, <<Normal(0)>>, "Unhardened"),
     XPub(XKey("kB", "Test"), HardenedOrigin, <<>>, "None"),
     XPub(XKey("kC", "Test"), SiblingOrigin, <<>>, "Unhardened")}

DescriptorTypes ==
    {"Bare", "Sh", "Pkh", "Wpkh", "Wsh", "ShWsh", "ShWpkh",
     "ShSortedMulti", "WshSortedMulti", "ShWshSortedMulti", "Tr"}

\* the descriptors the wrappers are called on
WrapperDescriptors ==
    {Descriptor(t, <<k>>) : t \in {"Pkh", "Tr"}, k \in MatchKeys}
    \cup {Descriptor("Wsh", <<k1, k2>>) : k1 \in MultiMatchKeys, k2 \in MultiMatchKeys}

\* the descriptors derive_from_psbt_input is called on
InputDescriptors ==
    {Descriptor(t, <<k>>) : t \in DescriptorTypes, k \in FixedMatchKeys}
    \cup {Descriptor(t, <<k>>) : t \in {"Pkh", "Tr", "Wsh"}, k \in MatchKeys}
    \cup {Descriptor("Wsh", <<k1, k2>>) : k1 \in MultiMatchKeys, k2 \in MultiMatchKeys}

\* the key the holder of the secret derives for a descriptor key and a suffix
TrueKey(k, suffix) == <<k.xkey.id, k.xkey.chain \o k.derivation_path \o suffix>>

\* a public key that no descriptor key derives
ForeignKey == <<"kZ", <<>>>>

\* bip32::KeySource with the public key it is recorded for
Entry(pk, fingerprint, path) == [pk |-> pk, fingerprint |-> fingerprint, path |-> path]

\* the replacement steps of the evidence
IndexSteps == {<<Normal(i)>> : i \in 0..MaxIndex}

\* the entry recorded for the key derived from k at suffix
TrueEntry(k, suffix) == Entry(TrueKey(k, suffix), root_fingerprint(k), compare_path(k) \o suffix)

\* entries that name k: recorded for a key derived from k (with no step, a
\* normal step or a hardened step), recorded for another public key, or
\* recorded with a path that is not the path of k and one step
EntriesFor(k) ==
    {TrueEntry(k, s) : s \in {<<>>, <<Hardened(0)>>} \cup IndexSteps}
    \cup {Entry(ForeignKey, root_fingerprint(k), compare_path(k) \o s) : s \in IndexSteps}
    \cup {Entry(TrueKey(k, <<Normal(0)>>), root_fingerprint(k),
                <<Normal(MaxIndex)>> \o compare_path(k) \o <<Normal(0)>>),
          Entry(TrueKey(k, <<Normal(0)>>), root_fingerprint(k),
                compare_path(k) \o <<Normal(0), Normal(0)>>)}

\* the entries of the evidence of derive_from_psbt_input
InputEntriesFor(k) ==
    {TrueEntry(k, s) : s \in {<<>>, <<Hardened(0)>>} \cup IndexSteps}
    \cup {Entry(ForeignKey, root_fingerprint(k), compare_path(k) \o <<Normal(MaxIndex)>>)}

XPubsOf(desc) == {k \in Range(desc.keys) : k.kind = "XPub"}

\* a map from public key in iteration order: no entry, one, or two of distinct keys
MapsOver(E) ==
    {<<>>} \cup {<<e>> : e \in E}
    \cup {m \in {<<e1, e2>> : e1 \in E, e2 \in E} : m[1].pk # m[2].pk}

SmallMapsOver(E) == {<<>>} \cup {<<e>> : e \in E}

LeafHashSets == {{}, {"leafA"}}

\* TapKeyOrigins: every entry carries the leaf hashes the key occurs in
WithLeafHashes(m, hashes) ==
    [i \in 1..Len(m) |->
        [pk |-> m[i].pk, leaf_hashes |-> hashes,
         fingerprint |-> m[i].fingerprint, path |-> m[i].path]]

\* Option<script>: absent, the script of the descriptor at index 0, another script
OtherScript == [script |-> "other"]

NoScripts == [utxo |-> None, redeem_script |-> None, witness_script |-> None]

ScriptsFor(desc) ==
    LET d == Descriptor(desc.desc_type,
                        [i \in 1..Len(desc.keys) |-> key_at_derivation_index(desc.keys[i], 0)])
    IN  {NoScripts,
         [utxo |-> <<script_pubkey(d)>>, redeem_script |-> <<explicit_script(d)>>,
          witness_script |-> <<explicit_script(d)>>]}
        \cup {[NoScripts EXCEPT !.utxo = <<s>>] : s \in {script_pubkey(d), OtherScript}}
        \cup {[NoScripts EXCEPT !.redeem_script = <<s>>] : s \in {explicit_script(d), OtherScript}}
        \cup {[NoScripts EXCEPT !.witness_script = <<s>>] : s \in {explicit_script(d), OtherScript}}

\* the entries the evidence of a call on desc is drawn from
EntriesOf(desc) == UNION {EntriesFor(k) : k \in XPubsOf(desc)}

InputEntriesOf(desc) == UNION {InputEntriesFor(k) : k \in XPubsOf(desc)}

\* the arguments of a call of derive_from_hd_keypaths
HdKeypathsCall(desc, hd_keypaths) ==
    [shape |-> "hd_keypaths", desc |-> desc, hd_keypaths |-> hd_keypaths]

\* the arguments of a call of derive_from_tap_key_origins
TapKeyOriginsCall(desc, tap_key_origins) ==
    [shape |-> "tap_key_origins", desc |-> desc, tap_key_origins |-> tap_key_origins]

\* the arguments of a call of derive_from_psbt_input
PsbtInputCall(desc, hd_keypaths, tap_key_origins, scripts) ==
    [shape |-> "psbt_input", desc |-> desc,
     psbt_input |-> [bip32_derivation |-> hd_keypaths,
                     tap_key_origins |-> tap_key_origins,
                     redeem_script |-> scripts.redeem_script,
                     witness_script |-> scripts.witness_script],
     utxo |-> scripts.utxo]

(***************************************************************************)
(* The canonicalizer: into_wallet_descriptor on each source shape, then    *)
(* the canonical descriptor printed and read back, or validated            *)
(***************************************************************************)
Init ==
    /\ pc = "start"
    /\ source \in Sources
    /\ network \in Networks
    /\ result = NoResult
    /\ pk_calls = 0
    /\ text2 = NoText
    /\ result2 = NoResult
    /\ check_result = NoResult

Canonicalized(outcome) ==
    /\ pc' = "canon"
    /\ result' = outcome.res
    /\ pk_calls' = outcome.pk_calls
    /\ UNCHANGED <<source, network, text2, result2, check_result>>

IntoWalletDescriptorStr ==
    /\ pc = "start"
    /\ source.shape = "str"
    /\ Canonicalized(str_into_wallet_descriptor(source.text, network))

IntoWalletDescriptorDescriptor ==
    /\ pc = "start"
    /\ source.shape = "descriptor"
    /\ Canonicalized(descriptor_into_wallet_descriptor(source.desc, network))

IntoWalletDescriptorPair ==
    /\ pc = "start"
    /\ source.shape = "pair"
    /\ Canonicalized(pair_into_wallet_descriptor(source.desc, source.keymap, network))

IntoWalletDescriptorTemplateOut ==
    /\ pc = "start"
    /\ source.shape = "template"
    /\ Canonicalized(template_into_wallet_descriptor(source.desc, source.keymap,
                                                     source.networks, network))

\* wallet_desc.to_string().into_wallet_descriptor(&secp, network)
ToStringIntoWalletDescriptor ==
    /\ pc = "canon"
    /\ result.ok
    /\ pc' = "reparsed"
    /\ text2' = to_string(result.desc)
    /\ result2' = str_into_wallet_descriptor(to_string(result.desc), network).res
    /\ UNCHANGED <<source, network, result, pk_calls, check_result>>

\* check_wallet_descriptor(&wallet_desc)
CheckWalletDescriptor ==
    /\ pc = "canon"
    /\ result.ok
    /\ pc' = "checked"
    /\ check_result' = check_wallet_descriptor(result.desc)
    /\ UNCHANGED <<source, network, result, pk_calls, text2, result2>>

Next ==
    \/ IntoWalletDescriptorStr
    \/ IntoWalletDescriptorDescriptor
    \/ IntoWalletDescriptorPair
    \/ IntoWalletDescriptorTemplateOut
    \/ ToStringIntoWalletDescriptor

Spec == Init /\ [][Next]_vars

(***************************************************************************)
(* The validator: check_wallet_descriptor on any descriptor, as it is or    *)
(* after into_wallet_descriptor accepted it                                *)
(***************************************************************************)
InitCheck ==
    /\ pc = "start"
    /\ source \in {[shape |-> "descriptor", desc |-> d] : d \in DescriptorsOver(CheckKeys)}
    /\ network = "Testnet"
    /\ result = NoResult
    /\ pk_calls = 0
    /\ text2 = NoText
    /\ result2 = NoResult
    /\ check_result = NoResult

\* check_wallet_descriptor(&descriptor)
CheckDescriptor ==
    /\ pc = "start"
    /\ source.shape = "descriptor"
    /\ pc' = "checked"
    /\ check_result' = check_wallet_descriptor(source.desc)
    /\ UNCHANGED <<source, network, result, pk_calls, text2, result2>>

NextCheck ==
    \/ CheckDescriptor
    \/ IntoWalletDescriptorDescriptor
    \/ CheckWalletDescriptor

SpecCheck == InitCheck /\ [][NextCheck]_vars

(***************************************************************************)
(* The key-origin matcher: one of the three derive_from_ entry points on a *)
(* descriptor and the evidence of one transaction input                    *)
(***************************************************************************)
InitMatch ==
    /\ pc = "start"
    /\ \/ \E d \in WrapperDescriptors : \E m \in MapsOver(EntriesOf(d)) :
            source = HdKeypathsCall(d, m)
       \/ \E d \in WrapperDescriptors : \E m \in MapsOver(EntriesOf(d)) :
            \E h \in LeafHashSets : source = TapKeyOriginsCall(d, WithLeafHashes(m, h))
       \/ \E d \in InputDescriptors :
            \E hd \in SmallMapsOver(InputEntriesOf(d)) :
            \E tap \in SmallMapsOver(InputEntriesOf(d)) :
            \E s \in ScriptsFor(d) : source = PsbtInputCall(d, hd, WithLeafHashes(tap, {}), s)
    /\ network = "Testnet"
    /\ result = NoResult
    /\ pk_calls = 0
    /\ text2 = NoText
    /\ result2 = NoResult
    /\ check_result = NoResult

MatcherReturned(derived) ==
    /\ pc' = "matched"
    /\ result' = derived
    /\ UNCHANGED <<source, network, pk_calls, text2, result2, check_result>>

\* descriptor.derive_from_hd_keypaths(&hd_keypaths, &secp)
DeriveFromHdKeypaths ==
    /\ pc = "start"
    /\ source.shape = "hd_keypaths"
    /\ MatcherReturned(derive_from_hd_keypaths(source.desc, source.hd_keypaths))

\* descriptor.derive_from_tap_key_origins(&tap_key_origins, &secp)
DeriveFromTapKeyOrigins ==
    /\ pc = "start"
    /\ source.shape = "tap_key_origins"
    /\ MatcherReturned(derive_from_tap_key_origins(source.desc, source.tap_key_origins))

\* descriptor.derive_from_psbt_input(&psbt_input, utxo, &secp)
DeriveFromPsbtInput ==
    /\ pc = "start"
    /\ source.shape = "psbt_input"
    /\ MatcherReturned(derive_from_psbt_input(source.desc, source.psbt_input, source.utxo))

NextMatch ==
    \/ DeriveFromHdKeypaths
    \/ DeriveFromTapKeyOrigins
    \/ DeriveFromPsbtInput

SpecMatch == InitMatch /\ [][NextMatch]_vars

(***************************************************************************)
(* Claims about into_wallet_descriptor                                     *)
(***************************************************************************)
\* the call was on a text expr#suffix
CalledOnTextWithSuffix == pc = "canon" /\ source.shape = "str" /\ source.text.suffix # None

\* the suffix is the checksum of the expression before it
SuffixIsChecksum(text) ==
    calc_checksum(text.expr).ok /\ text.suffix = <<calc_checksum(text.expr).checksum>>

\* the call on the expression alone, without # and suffix, succeeds
ExprAloneSucceeds(text, net) ==
    str_into_wallet_descriptor([expr |-> text.expr, suffix |-> None], net).res.ok

\* C1 as stated: on a text expr#suffix whose suffix is not the checksum of expr the
\* result is InvalidDescriptorChecksum, whatever expr is (checksummable or not,
\* parsable or not, network-correct or not).
C1_AsStated ==
    (CalledOnTextWithSuffix /\ ~SuffixIsChecksum(source.text))
        => result = Err(InvalidDescriptorChecksum)

\* C1 amended: on a text expr#suffix where the checksum of expr can be computed and
\* differs from suffix the result is InvalidDescriptorChecksum, whether or not expr
\* parses or is valid for the network; where the checksum of expr cannot be computed
\* the result is the error of the checksum computation.
C1_MismatchedChecksum ==
    CalledOnTextWithSuffix =>
        /\ (calc_checksum(source.text.expr).ok /\ ~SuffixIsChecksum(source.text))
                => result = Err(InvalidDescriptorChecksum)
        /\ ~calc_checksum(source.text.expr).ok
                => result = Err(calc_checksum(source.text.expr).err)

\* a wrong suffix behind an expression that is accepted when it stands alone
C1_Witness ==
    /\ CalledOnTextWithSuffix
    /\ calc_checksum(source.text.expr).ok
    /\ ~SuffixIsChecksum(source.text)
    /\ ExprAloneSucceeds(source.text, network)
    /\ result = Err(InvalidDescriptorChecksum)

\* the target network lies in the valid-network set of the key
ValidFor(k, net) == net \in valid_networks(k)

\* C2: on a (descriptor, key-map) pair the result is Key(InvalidNetwork) when the
\* target network is outside the valid-network set of at least one key, and the call
\* succeeds when the target network is in the valid-network set of every key.
C2_PairNetworkCheck ==
    (pc = "canon" /\ source.shape = "pair") =>
        /\ (\E k \in Range(source.desc.keys) : ~ValidFor(k, network))
                => result = Err(KeyInvalidNetwork)
        /\ (\A k \in Range(source.desc.keys) : ValidFor(k, network))
                => result.ok

\* a pair whose first key is valid for the target network and whose second is not
C2_Witness ==
    /\ pc = "canon"
    /\ source.shape = "pair"
    /\ Len(source.desc.keys) = 2
    /\ ValidFor(source.desc.keys[1], network)
    /\ ~ValidFor(source.desc.keys[2], network)
    /\ result = Err(KeyInvalidNetwork)

\* the key is an extended key
IsExtended(k) == k.kind \in {"XPub", "MultiXPub"}

\* C3 as stated: whatever the shape of the source, every extended key of the
\* descriptor a successful call returns is valid for the target network.
C3_AsStated ==
    (pc = "canon" /\ result.ok) =>
        \A k \in Range(result.desc.keys) : IsExtended(k) => ValidFor(k, network)

\* C4 as stated: a canonical descriptor printed as expr#checksum(expr) and handed
\* to into_wallet_descriptor with the same network is accepted and comes back equal.
C4_AsStated ==
    pc = "reparsed" =>
        /\ SuffixIsChecksum(text2)
        /\ result2.ok
        /\ result2.desc = result.desc

\* C5: on a template output whose network set lacks the target network the result
\* is Key(InvalidNetwork), and no key was translated before the rejection.
C5_TemplateNetworkSetFirst ==
    (pc = "canon" /\ source.shape = "template" /\ network \notin source.networks) =>
        /\ result = Err(KeyInvalidNetwork)
        /\ pk_calls = 0

\* a rejected template output holding an extended public key of the other network kind
C5_Witness ==
    /\ pc = "canon"
    /\ source.shape = "template"
    /\ network \notin source.networks
    /\ \E k \in Range(source.desc.keys) :
            k.kind = "XPub" /\ k.xkey.network # NetworkKind(network)
    /\ result = Err(KeyInvalidNetwork)
    /\ pk_calls = 0

CheckedDesc == IF result.ok THEN result.desc ELSE source.desc

\* the derivation paths of a key
PathsOf(k) ==
    CASE k.kind = "XPub" -> {k.derivation_path}
      [] k.kind = "MultiXPub" -> Range(k.derivation_paths)
      [] OTHER -> {}

\* the key has a hardened wildcard or a hardened step in a derivation path
HasHardenedDerivation(k) ==
    /\ IsExtended(k)
    /\ \/ k.wildcard = "Hardened"
       \/ \E p \in PathsOf(k) : \E i \in 1..Len(p) : p[i].hardened

HasDuplicatedKey(desc) ==
    \E i, j \in 1..Len(desc.keys) : i # j /\ desc.keys[i] = desc.keys[j]

\* C7 as stated: a descriptor in which any key has a hardened wildcard or a
\* hardened step in its derivation path is rejected with HardenedDerivationXpub.
C7_AsStated ==
    (pc = "checked" /\ \E k \in Range(CheckedDesc.keys) : HasHardenedDerivation(k))
        => check_result = Err(HardenedDerivationXpub)

\* C8: every multipath descriptor is rejected, with the wrapped bad-descriptor
\* error of the multipath check unless the hardened-derivation check, which runs
\* before it, already failed; into_wallet_descriptor accepts such a descriptor.
C8_MultipathRejected ==
    (pc = "checked" /\ is_multipath(CheckedDesc)) =>
        /\ ~check_result.ok
        /\ check_result \in {Err(MiniscriptError("BadDescriptor")), Err(HardenedDerivationXpub)}
        /\ (\A k \in Range(CheckedDesc.keys) : k.kind = "XPub" => ~HasHardenedDerivation(k))
                => check_result = Err(MiniscriptError("BadDescriptor"))

\* a multipath descriptor that into_wallet_descriptor accepted and the validator rejects
C8_Witness ==
    /\ pc = "checked"
    /\ result.ok
    /\ is_multipath(result.desc)
    /\ check_result = Err(MiniscriptError("BadDescriptor"))

\* C9: a descriptor with a duplicated key is rejected; when the hardened and the
\* multipath check pass and the sanity check fails the result is the sanity
\* check's error, wrapped and otherwise unchanged; Ok only if the sanity check passes.
C9_SanityCheckPropagated ==
    pc = "checked" =>
        /\ HasDuplicatedKey(CheckedDesc) => ~check_result.ok
        /\ (/\ \A k \in Range(CheckedDesc.keys) : k.kind = "XPub" => ~HasHardenedDerivation(k)
            /\ ~is_multipath(CheckedDesc)
            /\ ~sanity_check(CheckedDesc).ok)
                => check_result = Err(MiniscriptError(sanity_check(CheckedDesc).err))
        /\ check_result.ok => sanity_check(CheckedDesc).ok

\* a descriptor with the same unhardened key twice, rejected with the sanity check's error
C9_Witness ==
    /\ pc = "checked"
    /\ HasDuplicatedKey(CheckedDesc)
    /\ \A k \in Range(CheckedDesc.keys) : ~HasHardenedDerivation(k)
    /\ ~is_multipath(CheckedDesc)
    /\ check_result = Err(MiniscriptError("RepeatedPubkeys"))

\* C10: a descriptor the validator accepts has no hardened wildcard, no hardened
\* step in the derivation path of any key, and is not multipath.
C10_ValidatedDescriptor ==
    (pc = "checked" /\ check_result.ok) =>
        /\ \A k \in Range(CheckedDesc.keys) : ~HasHardenedDerivation(k)
        /\ ~is_multipath(CheckedDesc)

\* an accepted descriptor with an extended key that has steps and a wildcard
C10_Witness ==
    /\ pc = "checked"
    /\ check_result.ok
    /\ \E k \in Range(CheckedDesc.keys) :
            k.kind = "XPub" /\ k.derivation_path # <<>> /\ k.wildcard = "Unhardened"

(***************************************************************************)
(* Claims about the key-origin matcher                                     *)
(***************************************************************************)
\* the HD-keypath evidence of the call
HdEvidence ==
    IF source.shape = "hd_keypaths" THEN source.hd_keypaths
    ELSE source.psbt_input.bip32_derivation

\* the keys with an unhardened wildcard that public keys can be derived from
UnhardenedWildcardKeys(desc) ==
    {k \in XPubsOf(desc) : k.wildcard = "Unhardened" /\ derive_pub(k.xkey, k.derivation_path).ok}

\* every entry of the evidence records, for an unhardened-wildcard key of the
\* descriptor, the key derived at index i under (root fingerprint, prefix + [i])
BuiltAtIndex(m, desc, i) ==
    /\ Len(m) > 0
    /\ \A j \in 1..Len(m) :
            \E k \in UnhardenedWildcardKeys(desc) : m[j] = TrueEntry(k, <<Normal(i)>>)

\* C11: for a descriptor with an unhardened wildcard and HD-keypath evidence
\* built by deriving the true key at index i and recording it under (root
\* fingerprint, prefix path + [i]), derive_from_hd_keypaths and
\* derive_from_psbt_input return the descriptor derived at exactly index i.
C11_MatcherCompleteness ==
    (pc = "matched" /\ source.shape \in {"hd_keypaths", "psbt_input"})
        => \A i \in 0..MaxIndex :
                BuiltAtIndex(HdEvidence, source.desc, i)
                    => result = Derived(at_derivation_index(source.desc, i).desc)

C11_Witness ==
    /\ pc = "matched"
    /\ source.shape = "psbt_input"
    /\ MaxIndex > 0
    /\ BuiltAtIndex(HdEvidence, source.desc, MaxIndex)
    /\ result.outcome = "Some"
    /\ \E j \in 1..Len(result.desc.keys) :
            /\ source.desc.keys[j].kind = "XPub"
            /\ result.desc.keys[j].derivation_path
                    = source.desc.keys[j].derivation_path \o <<Normal(MaxIndex)>>

\* every entry of the evidence the call looks at
EvidenceEntries ==
    CASE source.shape = "hd_keypaths" -> Range(source.hd_keypaths)
      [] source.shape = "tap_key_origins" -> Range(source.tap_key_origins)
      [] source.shape = "psbt_input" ->
            Range(source.psbt_input.bip32_derivation) \cup Range(source.psbt_input.tap_key_origins)

\* the entry names the key: same root fingerprint, and the path is the key's
\* fixed prefix followed by one step
NamesKey(e, k) ==
    /\ e.fingerprint = root_fingerprint(k)
    /\ Len(e.path) > 0
    /\ SubSeq(e.path, 1, Len(e.path) - 1) = compare_path(k)

\* the entry names the key and the public key it is recorded for is the one
\* re-derived from the key at (descriptor path + final step)
ConfirmedBy(e, k) ==
    /\ NamesKey(e, k)
    /\ LET rederived == derive_pub(k.xkey, k.derivation_path \o <<e.path[Len(e.path)]>>)
       IN  rederived.ok /\ e.pk = public_key(rederived.xkey)

\* the entry names the key and re-derivation at its path is not possible
NotRederivable(e, k) ==
    /\ NamesKey(e, k)
    /\ ~derive_pub(k.xkey, k.derivation_path \o <<e.path[Len(e.path)]>>).ok

\* the extended keys of the descriptor all have an unhardened wildcard
OnlyUnhardenedWildcards(desc) ==
    /\ XPubsOf(desc) # {}
    /\ \A k \in XPubsOf(desc) : k.wildcard = "Unhardened"

\* C12: for a descriptor with an unhardened wildcard, evidence entries whose
\* path differs from the key's fixed prefix in more than the final step, or
\* whose expected public key is not the key re-derived at (descriptor path +
\* final step), never produce a match: no descriptor is returned, and the
\* matcher returns None whenever the re-derivation can be carried out.
C12_MatcherSoundness ==
    (/\ pc = "matched"
     /\ OnlyUnhardenedWildcards(source.desc)
     /\ \A e \in EvidenceEntries : \A k \in XPubsOf(source.desc) : ~ConfirmedBy(e, k))
        => /\ result.outcome # "Some"
           /\ (\A e \in EvidenceEntries : \A k \in XPubsOf(source.desc) : ~NotRederivable(e, k))
                => result = NotDerived

C12_Witness ==
    /\ pc = "matched"
    /\ OnlyUnhardenedWildcards(source.desc)
    /\ \A e \in EvidenceEntries : \A k \in XPubsOf(source.desc) : ~ConfirmedBy(e, k)
    /\ \E e \in EvidenceEntries : \E k \in XPubsOf(source.desc) :
            NamesKey(e, k) /\ e.pk = ForeignKey
    /\ \E e \in EvidenceEntries : \A k \in XPubsOf(source.desc) :
            e.fingerprint = root_fingerprint(k) /\ ~NamesKey(e, k)
    /\ result = NotDerived

\* the entry names an unhardened-wildcard key of the descriptor and its final
\* step is hardened
HardenedFinalStep(e, desc) ==
    \E k \in XPubsOf(desc) :
        k.wildcard = "Unhardened" /\ NamesKey(e, k) /\ is_hardened(e.path[Len(e.path)])

\* C13 as stated: derive_from_psbt_input always completes, and evidence whose
\* entries match an unhardened-wildcard key by fingerprint and prefix and have
\* a hardened final step is not accepted: the call returns None.
C13_AsStated ==
    (pc = "matched" /\ source.shape = "psbt_input")
        => /\ result # Aborted
           /\ (/\ EvidenceEntries # {}
               /\ \A e \in EvidenceEntries : HardenedFinalStep(e, source.desc))
                => result = NotDerived

\* what the HD-keypath stage and the taproot stage yield on the input of the call
HdStage == derive_from_hd_keypaths(source.desc, source.psbt_input.bip32_derivation)

TapStage == derive_from_tap_key_origins(source.desc, source.psbt_input.tap_key_origins)

\* C14: in derive_from_psbt_input the result of HD-keypath matching, when it
\* succeeds, is returned whatever the taproot evidence, known output, redeem
\* script and witness script are; the taproot result is returned only when
\* HD-keypath matching yields nothing; the fixed-index fallback decides only
\* when both yield nothing.
C14_StagePriority ==
    (pc = "matched" /\ source.shape = "psbt_input")
        => /\ HdStage.outcome = "Some" => result = HdStage
           /\ (HdStage = NotDerived /\ TapStage.outcome = "Some") => result = TapStage
           /\ (result.outcome = "Some" /\ result # HdStage /\ result # TapStage)
                => (HdStage = NotDerived /\ TapStage = NotDerived)

C14_Witness ==
    /\ pc = "matched"
    /\ source.shape = "psbt_input"
    /\ HdStage.outcome = "Some"
    /\ TapStage.outcome = "Some"
    /\ TapStage # HdStage
    /\ source.utxo # None
    /\ source.psbt_input.witness_script # None
    /\ result = HdStage

\* the call is on a wildcard-free descriptor and no key origin matched
FallbackReached ==
    /\ pc = "matched"
    /\ source.shape = "psbt_input"
    /\ ~has_wildcard(source.desc)
    /\ HdStage = NotDerived
    /\ TapStage = NotDerived

\* the descriptor of the call at index 0
AtIndexZero == at_derivation_index(source.desc, 0).desc

\* the evidence the class of the descriptor asks for is present and equal
FallbackEvidenceAgrees ==
    \/ /\ source.desc.desc_type \in {"Pkh", "Wpkh", "ShWpkh", "Tr"}
       /\ source.utxo = <<script_pubkey(AtIndexZero)>>
    \/ /\ source.desc.desc_type \in {"Bare", "Sh", "ShSortedMulti"}
       /\ source.psbt_input.redeem_script = <<explicit_script(AtIndexZero)>>
    \/ /\ source.desc.desc_type \in {"Wsh", "ShWsh", "WshSortedMulti", "ShWshSortedMulti"}
       /\ source.psbt_input.witness_script = <<explicit_script(AtIndexZero)>>

\* C15: for a wildcard-free descriptor with no key-origin match,
\* derive_from_psbt_input returns the descriptor at index 0 if and only if
\* (a) the class is pkh/wpkh/sh-wpkh/tr and the known spent output is present
\* with the derived script, or (b) the class is bare/sh/sh-sortedmulti and the
\* redeem script is present and is the explicit script, or (c) the class is
\* wsh/sh-wsh/(sh-)wsh-sortedmulti and the witness script is present and is
\* the explicit script; in every other case it returns None.
C15_FixedIndexFallback ==
    FallbackReached
        => result = IF FallbackEvidenceAgrees THEN Derived(AtIndexZero) ELSE NotDerived

C15_Witness ==
    /\ FallbackReached
    /\ source.desc.desc_type = "ShSortedMulti"
    /\ source.utxo = None
    /\ source.psbt_input.redeem_script = <<explicit_script(AtIndexZero)>>
    /\ result = Derived(AtIndexZero)

(***************************************************************************)
(* Claims about the order of the checks                                    *)
(***************************************************************************)
\* what into_wallet_descriptor returns on the expression without its suffix
ExprAlone == str_into_wallet_descriptor([expr |-> source.text.expr, suffix |-> None], network).res

\* C16: on a text whose embedded checksum does not match, into_wallet_descriptor
\* fails in the checksum step, before the descriptor is parsed and before any
\* key or network is looked at: no key is visited, the error is neither a
\* parse error nor InvalidNetwork, and a text that parses (in particular one
\* whose keys are invalid for the target network) yields InvalidDescriptorChecksum.
C16_ChecksumBeforeParseAndNetwork ==
    (CalledOnTextWithSuffix /\ ~SuffixIsChecksum(source.text))
        => /\ pk_calls = 0
           /\ result \in {Err(InvalidDescriptorChecksum), Err(CalcChecksumError)}
           /\ parse_descriptor(source.text.expr).ok => result = Err(InvalidDescriptorChecksum)

\* a wrong suffix behind an expression whose keys are invalid for the network
C16_Witness ==
    /\ CalledOnTextWithSuffix
    /\ ~SuffixIsChecksum(source.text)
    /\ ExprAlone = Err(KeyInvalidNetwork)
    /\ result = Err(InvalidDescriptorChecksum)

\* C17 as stated: check_wallet_descriptor returns the error of the first
\* failing check in the order hardened derivation, multipath, sanity: a
\* descriptor with a hardened step that is also multipath or has duplicate
\* keys yields HardenedDerivationXpub, and a multipath descriptor with a
\* sanity defect yields the multipath error.
C17_AsStated ==
    pc = "checked"
        => /\ (/\ \E k \in Range(CheckedDesc.keys) : HasHardenedDerivation(k)
               /\ is_multipath(CheckedDesc) \/ HasDuplicatedKey(CheckedDesc))
                => check_result = Err(HardenedDerivationXpub)
           /\ (/\ \A k \in Range(CheckedDesc.keys) : ~HasHardenedDerivation(k)
               /\ is_multipath(CheckedDesc)
               /\ HasDuplicatedKey(CheckedDesc))
                => check_result = Err(MiniscriptError("BadDescriptor"))

(***************************************************************************)
(* Claims about the keys the matcher accepts                               *)
(***************************************************************************)
\* C18 as stated: a key with a hardened wildcard never yields a match,
\* whatever the evidence: on a descriptor whose extended keys all have a
\* hardened wildcard no descriptor is returned.
C18_AsStated ==
    (/\ pc = "matched"
     /\ XPubsOf(source.desc) # {}
     /\ \A k \in XPubsOf(source.desc) : k.wildcard = "Hardened")
        => result.outcome # "Some"

\* C19 as stated: when matching succeeds on a descriptor that contains a
\* wildcard key, the index of the returned descriptor is the final path step
\* of an evidence entry that is verified by re-derivation against a wildcard
\* key; a confirmed match on a fixed key does not fix the index to 0.
C19_AsStated ==
    (pc = "matched" /\ has_wildcard(source.desc) /\ result.outcome = "Some")
        => \E e \in EvidenceEntries : \E k \in XPubsOf(source.desc) :
                /\ k.wildcard # "None"
                /\ ConfirmedBy(e, k)
                /\ result = Derived(at_derivation_index(source.desc,
                                                        e.path[Len(e.path)].index).desc)

\* C20: on a descriptor with any wildcard for which neither HD-keypath nor
\* taproot matching succeeds, derive_from_psbt_input returns no descriptor,
\* and returns None when both stages returned None, even if the known spent
\* output, redeem script or witness script is the descriptor's script at
\* index 0: no index is guessed.
C20_NoIndexGuessed ==
    (/\ pc = "matched"
     /\ source.shape = "psbt_input"
     /\ has_wildcard(source.desc)
     /\ HdStage.outcome # "Some"
     /\ TapStage.outcome # "Some")
        => /\ result.outcome # "Some"
           /\ (HdStage = NotDerived /\ TapStage = NotDerived) => result = NotDerived

C20_Witness ==
    /\ pc = "matched"
    /\ source.shape = "psbt_input"
    /\ has_wildcard(source.desc)
    /\ HdStage = NotDerived
    /\ TapStage = NotDerived
    /\ EvidenceEntries # {}
    /\ source.desc.desc_type = "Wsh"
    /\ source.utxo = <<script_pubkey(AtIndexZero)>>
    /\ source.psbt_input.witness_script = <<explicit_script(AtIndexZero)>>
    /\ result = NotDerived

(***************************************************************************)
(* Claims about the enumeration of keys and of evidence entries            *)
(***************************************************************************)
\* the entry is recorded for the fixed key itself: same root fingerprint,
\* the key's whole path, and the public key re-derived at the descriptor path
ConfirmsFixedKey(e, k) ==
    /\ e.fingerprint = root_fingerprint(k)
    /\ e.path = compare_path(k)
    /\ derive_pub(k.xkey, k.derivation_path).ok
    /\ e.pk = public_key(derive_pub(k.xkey, k.derivation_path).xkey)

\* the indices the evidence confirms for a key by re-derivation
ConfirmedIndices(k) ==
    IF k.kind # "XPub" THEN {}
    ELSE IF k.wildcard = "Unhardened"
    THEN {e.path[Len(e.path)].index : e \in {x \in EvidenceEntries : ConfirmedBy(x, k)}}
    ELSE IF k.wildcard = "None" /\ \E e \in EvidenceEntries : ConfirmsFixedKey(e, k)
    THEN {0}
    ELSE {}

\* no two entries of the evidence share a root fingerprint
DistinctFingerprints ==
    \A e1, e2 \in EvidenceEntries : e1.fingerprint = e2.fingerprint => e1 = e2

\* verify_key can re-derive at every entry that names a key
AllRederivable ==
    \A e \in EvidenceEntries : \A k \in XPubsOf(source.desc) : ~NotRederivable(e, k)

\* the positions of the keys that have a confirmed index
ConfirmedPositions ==
    {p \in 1..Len(source.desc.keys) : ConfirmedIndices(source.desc.keys[p]) # {}}

FirstConfirmedPosition == CHOOSE p \in ConfirmedPositions : \A q \in ConfirmedPositions : p <= q

\* C21: the keys are examined in the descriptor's enumeration order and the
\* first key with a confirmed match decides: when several keys have confirmed
\* evidence with different final indices, the descriptor is returned at the
\* index of the first such key.
C21_FirstConfirmedKeyDecides ==
    (/\ pc = "matched"
     /\ source.shape \in {"hd_keypaths", "tap_key_origins"}
     /\ \A k \in XPubsOf(source.desc) : k.wildcard # "Hardened"
     /\ DistinctFingerprints
     /\ AllRederivable
     /\ ConfirmedPositions # {})
        => \E i \in ConfirmedIndices(source.desc.keys[FirstConfirmedPosition]) :
                result = Derived(at_derivation_index(source.desc, i).desc)

C21_Witness ==
    /\ pc = "matched"
    /\ source.shape = "hd_keypaths"
    /\ DistinctFingerprints
    /\ Len(source.desc.keys) > 1
    /\ OnlyUnhardenedWildcards(source.desc)
    /\ ConfirmedIndices(source.desc.keys[1]) = {MaxIndex}
    /\ ConfirmedIndices(source.desc.keys[Len(source.desc.keys)]) = {0}
    /\ MaxIndex > 0
    /\ result = Derived(at_derivation_index(source.desc, MaxIndex).desc)

(***************************************************************************)
(* Claims about the key map                                                *)
(***************************************************************************)
\* the network tag a secret key carries
SecretNetwork(v) == IF v.kind = "Single" THEN v.key.network ELSE v.xkey.network

\* the public key of a secret key (DescriptorSecretKey::to_public)
PublicForm(v) ==
    CASE v.kind = "Single" -> SinglePub(v.key.id, v.origin)
      [] v.kind = "XPrv" -> xprv_to_public(v)
      [] v.kind = "MultiXPrv" -> MultiXPub(v.xkey, v.origin, v.derivation_paths, v.wildcard)

C23_PairReturnedUnchanged ==
    (pc = "canon" /\ source.shape = "pair" /\ result.ok)
        => /\ result.desc = source.desc
           /\ result.keymap = source.keymap

C23_Witness ==
    /\ pc = "canon"
    /\ source.shape = "pair"
    /\ source.keymap # {}
    /\ \E k \in Range(source.desc.keys) : k.kind = "XPub"
    /\ result = Ok(source.desc, source.keymap)

(***************************************************************************)
(* Claims about the taproot evidence and shared fingerprints               *)
(***************************************************************************)
\* the HD-keypath evidence that records the same keys, fingerprints and paths
AsHdKeypaths(tap_key_origins) ==
    [i \in 1..Len(tap_key_origins) |->
        Entry(tap_key_origins[i].pk, tap_key_origins[i].fingerprint, tap_key_origins[i].path)]

\* C24: derive_from_tap_key_origins gives what derive_from_hd_keypaths gives
\* on the evidence that records the same keys under the same fingerprints and
\* paths, and its result does not depend on the leaf hashes: the evidence with
\* any other leaf-hash sets gives the same outcome.
C24_TaprootLikeHdAndLeafIndependent ==
    (pc = "matched" /\ source.shape = "tap_key_origins")
        => /\ result = derive_from_hd_keypaths(source.desc, AsHdKeypaths(source.tap_key_origins))
           /\ \A h \in LeafHashSets :
                result = derive_from_tap_key_origins(source.desc,
                            WithLeafHashes(source.tap_key_origins, h))

C24_Witness ==
    /\ pc = "matched"
    /\ source.shape = "tap_key_origins"
    /\ Len(source.tap_key_origins) > 0
    /\ \A i \in 1..Len(source.tap_key_origins) : source.tap_key_origins[i].leaf_hashes = {}
    /\ MaxIndex > 0
    /\ result.outcome = "Some"
    /\ result = Derived(at_derivation_index(source.desc, MaxIndex).desc)

\* the evidence map of a call of one of the two wrappers, in iteration order
EvidenceMap ==
    IF source.shape = "hd_keypaths" THEN source.hd_keypaths ELSE source.tap_key_origins

\* the entries that are the last of their root fingerprint in iteration order
LastOfFingerprint ==
    {EvidenceMap[i] : i \in {j \in 1..Len(EvidenceMap) :
        \A l \in (j + 1)..Len(EvidenceMap) :
            EvidenceMap[l].fingerprint # EvidenceMap[j].fingerprint}}

\* the entry matches the key by fingerprint, prefix and re-derivation
MatchesKey(e, k) ==
    \/ k.wildcard = "Unhardened" /\ ConfirmedBy(e, k)
    \/ k.wildcard = "None" /\ ConfirmsFixedKey(e, k)

\* the call is one of a wrapper, on a descriptor without hardened wildcard and
\* on evidence verify_key can re-derive
WrapperCalled ==
    /\ pc = "matched"
    /\ source.shape \in {"hd_keypaths", "tap_key_origins"}
    /\ \A k \in XPubsOf(source.desc) : k.wildcard # "Hardened"
    /\ AllRederivable

\* C25 as stated: if the evidence holds at least one entry that matches a
\* descriptor key by fingerprint, prefix and re-derivation, the matcher
\* succeeds, whatever further entries share that entry's root fingerprint.
C25_AsStated ==
    (/\ WrapperCalled
     /\ \E e \in EvidenceEntries : \E k \in XPubsOf(source.desc) : MatchesKey(e, k))
        => result.outcome = "Some"

\* What the code does instead: of the entries that share a root fingerprint
\* the matcher sees the last one in the evidence map's iteration order only;
\* it succeeds if and only if such a last entry matches a descriptor key by
\* fingerprint, prefix and re-derivation.
LastEntryOfFingerprintDecides ==
    WrapperCalled
        => (result.outcome = "Some"
                <=> \E e \in LastOfFingerprint : \E k \in XPubsOf(source.desc) : MatchesKey(e, k))

\* a matching entry followed by an entry of the same fingerprint that matches no key
MatchingEntryOverwritten ==
    /\ WrapperCalled
    /\ \E e \in EvidenceEntries \ LastOfFingerprint :
            \E k \in XPubsOf(source.desc) : MatchesKey(e, k)
    /\ \A e \in LastOfFingerprint : \A k \in XPubsOf(source.desc) : ~MatchesKey(e, k)
    /\ result = NotDerived

(***************************************************************************)
(* Claims about the origin path in check_wallet_descriptor                 *)
(***************************************************************************)
\* the key's origin path has a hardened step
HasHardenedOrigin(k) ==
    k.origin # None /\ \E i \in 1..Len(k.origin[2]) : k.origin[2][i].hardened

\* C26: hardened steps in the origin path of a key never cause the validator
\* to return HardenedDerivationXpub: it returns that error only if an extended
\* key has a hardened wildcard or a hardened step in the derivation path that
\* follows the key, and a descriptor whose only hardened steps are in origin
\* paths gets the result the other checks give.
C26_OriginPathNotExamined ==
    pc = "checked" =>
        (check_result = Err(HardenedDerivationXpub)
            <=> \E k \in Range(CheckedDesc.keys) : k.kind = "XPub" /\ HasHardenedDerivation(k))

\* an accepted descriptor with an extended key whose origin path is hardened
C26_Witness ==
    /\ pc = "checked"
    /\ \E k \in Range(CheckedDesc.keys) : k.kind = "XPub" /\ HasHardenedOrigin(k)
    /\ check_result = OkUnit

====
